---------------------------- MODULE Spec2Model ----------------------------
\* A model of extract_literature_information.py: the BibTeX record
\* segmentation and field extraction of parse_bibtex_file, the LaTeX-to-
\* Unicode normalisation of clean_field_value, and the control flow of main.
\*
\* A text is a sequence of characters.  An ASCII character is the string of
\* that one character; a non-ASCII character is named by its code point,
\* "U+00E9" for e-acute; the backtick is named "U+0060" as well.
EXTENDS Integers, Sequences, FiniteSets, TLC

VARIABLES
    pc,         \* position of main, or of the function under check
    content,    \* the text of the input file
    entries,    \* the list parse_bibtex_file returns
    bodies,     \* entry_content of each iteration of the loop of parse_bibtex_file
    exports,    \* number of calls of export_to_files
    artifact,   \* TRUE once the Excel file has been written
    report,     \* the outcome main printed last
    value,      \* argument of clean_field_value
    cleaned     \* result of clean_field_value

vars == <<pc, content, entries, bodies, exports, artifact, report, value, cleaned>>

--------------------------------------------------------------------------
\* Character classes of the re module of Python on str patterns.

AsciiLower ==
    {"a", "b", "c", "d", "e", "f", "g", "h", "i", "j", "k", "l", "m",
     "n", "o", "p", "q", "r", "s", "t", "u", "v", "w", "x", "y", "z"}

AsciiUpper ==
    {"A", "B", "C", "D", "E", "F", "G", "H", "I", "J", "K", "L", "M",
     "N", "O", "P", "Q", "R", "S", "T", "U", "V", "W", "X", "Y", "Z"}

AsciiLetters == AsciiLower \cup AsciiUpper

Digits == {"0", "1", "2", "3", "4", "5", "6", "7", "8", "9"}

\* The letters outside ASCII that occur in the mapping tables and in the
\* replacement string of line 101 (all of them are \w for Python).
UnicodeLetters ==
    {"U+00C0", "U+00C1", "U+00C2", "U+00C3", "U+00C4", "U+00C5", "U+00C6",
     "U+00C7", "U+00C8", "U+00C9", "U+00CA", "U+00CB", "U+00CC", "U+00CD",
     "U+00CE", "U+00CF", "U+00D1", "U+00D2", "U+00D3", "U+00D4", "U+00D5",
     "U+00D6", "U+00D8", "U+00D9", "U+00DA", "U+00DB", "U+00DC", "U+00DD",
     "U+00DF", "U+00E0", "U+00E1", "U+00E2", "U+00E3", "U+00E4", "U+00E5",
     "U+00E6", "U+00E7", "U+00E8", "U+00E9", "U+00EA", "U+00EB", "U+00EC",
     "U+00ED", "U+00EE", "U+00EF", "U+00F1", "U+00F2", "U+00F3", "U+00F4",
     "U+00F5", "U+00F6", "U+00F8", "U+00F9", "U+00FA", "U+00FB", "U+00FC",
     "U+00FD", "U+0106", "U+0107", "U+0152", "U+0153",
     "U+5DE6", "U+5355", "U+5F15", "U+53F7"}

\* \w
IsWord(c) == c \in AsciiLetters \cup Digits \cup {"_"} \cup UnicodeLetters

\* \s
IsSpace(c) == c \in {" ", "\t", "\n", "\r", "\f"}

\* str.lower() on one character.
UpperToLower ==
    [c \in AsciiUpper |->
        CASE c = "A" -> "a" [] c = "B" -> "b" [] c = "C" -> "c" [] c = "D" -> "d"
          [] c = "E" -> "e" [] c = "F" -> "f" [] c = "G" -> "g" [] c = "H" -> "h"
          [] c = "I" -> "i" [] c = "J" -> "j" [] c = "K" -> "k" [] c = "L" -> "l"
          [] c = "M" -> "m" [] c = "N" -> "n" [] c = "O" -> "o" [] c = "P" -> "p"
          [] c = "Q" -> "q" [] c = "R" -> "r" [] c = "S" -> "s" [] c = "T" -> "t"
          [] c = "U" -> "u" [] c = "V" -> "v" [] c = "W" -> "w" [] c = "X" -> "x"
          [] c = "Y" -> "y" [] c = "Z" -> "z"]

lower(s) == [i \in 1..Len(s) |-> IF s[i] \in AsciiUpper THEN UpperToLower[s[i]] ELSE s[i]]

--------------------------------------------------------------------------
\* The operations of re and str the program uses.

\* The text s[from..to-1]: the slice s[from:to] of Python, with 1-based positions.
Slice(s, from, to) == SubSeq(s, from, to - 1)

\* The literal lit stands in s at position p.
LitAt(s, p, lit) ==
    /\ p + Len(lit) - 1 <= Len(s)
    /\ \A k \in 1..Len(lit) : s[p + k - 1] = lit[k]

\* \b before position p: exactly one of s[p-1], s[p] is a word character.
BoundaryAt(s, p) ==
    LET before == p > 1 /\ p - 1 <= Len(s) /\ IsWord(s[p - 1])
        after  == p >= 1 /\ p <= Len(s) /\ IsWord(s[p])
    IN  before # after

Min(S) == CHOOSE x \in S : \A y \in S : x <= y
Max(S) == CHOOSE x \in S : \A y \in S : x >= y

\* The character classes of the patterns of the program.
InClass(cls, c) ==
    CASE cls = "word"            -> IsWord(c)
      [] cls = "space"           -> IsSpace(c)
      [] cls = "ascii_letter"    -> c \in AsciiLetters
      [] cls = "key"             -> c # "," /\ ~IsSpace(c)
      [] cls = "not_brace"       -> c \notin {"{", "}"}
      [] cls = "not_close_brace" -> c # "}"

\* The end (exclusive) of the longest run of characters of the class cls in
\* s from p on: what a greedy repetition of the class consumes.
RunEnd(cls, s, p) ==
    Min({q \in p..(Len(s) + 1) : q > Len(s) \/ ~InClass(cls, s[q])})

\* re.sub and str.replace: scan s from the left; at the first position q
\* from p on where the pattern matches, with length len[q] > 0, keep
\* s[p..q-1], emit rep[q] and go on at q + len[q]; keep the rest when there
\* is no further match.  (No pattern of the program matches the empty
\* string.)
ReSub(s, len, rep) ==
    LET Matches(p) == {q \in p..Len(s) : len[q] > 0}
        out[p \in 1..(Len(s) + 1)] ==
            IF Matches(p) = {} THEN SubSeq(s, p, Len(s))
            ELSE LET q == Min(Matches(p))
                 IN  SubSeq(s, p, q - 1) \o rep[q] \o out[q + len[q]]
    IN  out[1]

\* str.replace(old, new)
Replace(s, old, new) ==
    ReSub(s, [p \in 1..Len(s) |-> IF LitAt(s, p, old) THEN Len(old) ELSE 0],
             [p \in 1..Len(s) |-> new])

\* str.strip()
strip(s) ==
    LET NonSpace == {i \in 1..Len(s) : ~IsSpace(s[i])}
    IN  IF NonSpace = {} THEN <<>> ELSE SubSeq(s, Min(NonSpace), Max(NonSpace))

--------------------------------------------------------------------------
\* latex_mappings: the (pattern, replacement) rules in the order of the dict; pat lists the
\* literal strings the pattern matches, in the order the regex engine tries them;
\* b is TRUE when the pattern ends with \b.
latex_mappings ==
    << [pat |-> << <<"\\", "~", "{", "n", "}">> >>, b |-> FALSE, rep |-> <<"U+00F1">>],
       [pat |-> << <<"\\", "~", "{", "N", "}">> >>, b |-> FALSE, rep |-> <<"U+00D1">>],
       [pat |-> << <<"\\", "~", "{", "a", "}">> >>, b |-> FALSE, rep |-> <<"U+00E3">>],
       [pat |-> << <<"\\", "~", "{", "A", "}">> >>, b |-> FALSE, rep |-> <<"U+00C3">>],
       [pat |-> << <<"\\", "~", "{", "o", "}">> >>, b |-> FALSE, rep |-> <<"U+00F5">>],
       [pat |-> << <<"\\", "~", "{", "O", "}">> >>, b |-> FALSE, rep |-> <<"U+00D5">>],
       [pat |-> << <<"\\", "'", "{", "a", "}">>, <<"\\", "{", "a", "}">> >>, b |-> FALSE, rep |-> <<"U+00E1">>],
       [pat |-> << <<"\\", "'", "{", "A", "}">>, <<"\\", "{", "A", "}">> >>, b |-> FALSE, rep |-> <<"U+00C1">>],
       [pat |-> << <<"\\", "'", "{", "e", "}">>, <<"\\", "{", "e", "}">> >>, b |-> FALSE, rep |-> <<"U+00E9">>],
       [pat |-> << <<"\\", "'", "{", "E", "}">>, <<"\\", "{", "E", "}">> >>, b |-> FALSE, rep |-> <<"U+00C9">>],
       [pat |-> << <<"\\", "'", "{", "i", "}">>, <<"\\", "{", "i", "}">> >>, b |-> FALSE, rep |-> <<"U+00ED">>],
       [pat |-> << <<"\\", "'", "{", "I", "}">>, <<"\\", "{", "I", "}">> >>, b |-> FALSE, rep |-> <<"U+00CD">>],
       [pat |-> << <<"\\", "'", "{", "o", "}">>, <<"\\", "{", "o", "}">> >>, b |-> FALSE, rep |-> <<"U+00F3">>],
       [pat |-> << <<"\\", "'", "{", "O", "}">>, <<"\\", "{", "O", "}">> >>, b |-> FALSE, rep |-> <<"U+00D3">>],
       [pat |-> << <<"\\", "'", "{", "u", "}">>, <<"\\", "{", "u", "}">> >>, b |-> FALSE, rep |-> <<"U+00FA">>],
       [pat |-> << <<"\\", "'", "{", "U", "}">>, <<"\\", "{", "U", "}">> >>, b |-> FALSE, rep |-> <<"U+00DA">>],
       [pat |-> << <<"\\", "'", "{", "y", "}">>, <<"\\", "{", "y", "}">> >>, b |-> FALSE, rep |-> <<"U+00FD">>],
       [pat |-> << <<"\\", "'", "{", "Y", "}">>, <<"\\", "{", "Y", "}">> >>, b |-> FALSE, rep |-> <<"U+00DD">>],
       [pat |-> << <<"\\", "'", "{", "c", "}">>, <<"\\", "{", "c", "}">> >>, b |-> FALSE, rep |-> <<"U+0107">>],
       [pat |-> << <<"\\", "'", "{", "C", "}">>, <<"\\", "{", "C", "}">> >>, b |-> FALSE, rep |-> <<"U+0106">>],
       [pat |-> << <<"\\", "U+0060", "{", "a", "}">> >>, b |-> FALSE, rep |-> <<"U+00E0">>],
       [pat |-> << <<"\\", "U+0060", "{", "A", "}">> >>, b |-> FALSE, rep |-> <<"U+00C0">>],
       [pat |-> << <<"\\", "U+0060", "{", "e", "}">> >>, b |-> FALSE, rep |-> <<"U+00E8">>],
       [pat |-> << <<"\\", "U+0060", "{", "E", "}">> >>, b |-> FALSE, rep |-> <<"U+00C8">>],
       [pat |-> << <<"\\", "U+0060", "{", "i", "}">> >>, b |-> FALSE, rep |-> <<"U+00EC">>],
       [pat |-> << <<"\\", "U+0060", "{", "I", "}">> >>, b |-> FALSE, rep |-> <<"U+00CC">>],
       [pat |-> << <<"\\", "U+0060", "{", "o", "}">> >>, b |-> FALSE, rep |-> <<"U+00F2">>],
       [pat |-> << <<"\\", "U+0060", "{", "O", "}">> >>, b |-> FALSE, rep |-> <<"U+00D2">>],
       [pat |-> << <<"\\", "U+0060", "{", "u", "}">> >>, b |-> FALSE, rep |-> <<"U+00F9">>],
       [pat |-> << <<"\\", "U+0060", "{", "U", "}">> >>, b |-> FALSE, rep |-> <<"U+00D9">>],
       [pat |-> << <<"\\", "\"", "{", "a", "}">> >>, b |-> FALSE, rep |-> <<"U+00E4">>],
       [pat |-> << <<"\\", "\"", "{", "A", "}">> >>, b |-> FALSE, rep |-> <<"U+00C4">>],
       [pat |-> << <<"\\", "\"", "{", "e", "}">> >>, b |-> FALSE, rep |-> <<"U+00EB">>],
       [pat |-> << <<"\\", "\"", "{", "E", "}">> >>, b |-> FALSE, rep |-> <<"U+00CB">>],
       [pat |-> << <<"\\", "\"", "{", "i", "}">> >>, b |-> FALSE, rep |-> <<"U+00EF">>],
       [pat |-> << <<"\\", "\"", "{", "I", "}">> >>, b |-> FALSE, rep |-> <<"U+00CF">>],
       [pat |-> << <<"\\", "\"", "{", "o", "}">> >>, b |-> FALSE, rep |-> <<"U+00F6">>],
       [pat |-> << <<"\\", "\"", "{", "O", "}">> >>, b |-> FALSE, rep |-> <<"U+00D6">>],
       [pat |-> << <<"\\", "\"", "{", "u", "}">> >>, b |-> FALSE, rep |-> <<"U+00FC">>],
       [pat |-> << <<"\\", "\"", "{", "U", "}">> >>, b |-> FALSE, rep |-> <<"U+00DC">>],
       [pat |-> << <<"\\", "^", "{", "a", "}">> >>, b |-> FALSE, rep |-> <<"U+00E2">>],
       [pat |-> << <<"\\", "^", "{", "A", "}">> >>, b |-> FALSE, rep |-> <<"U+00C2">>],
       [pat |-> << <<"\\", "^", "{", "e", "}">> >>, b |-> FALSE, rep |-> <<"U+00EA">>],
       [pat |-> << <<"\\", "^", "{", "E", "}">> >>, b |-> FALSE, rep |-> <<"U+00CA">>],
       [pat |-> << <<"\\", "^", "{", "i", "}">> >>, b |-> FALSE, rep |-> <<"U+00EE">>],
       [pat |-> << <<"\\", "^", "{", "I", "}">> >>, b |-> FALSE, rep |-> <<"U+00CE">>],
       [pat |-> << <<"\\", "^", "{", "o", "}">> >>, b |-> FALSE, rep |-> <<"U+00F4">>],
       [pat |-> << <<"\\", "^", "{", "O", "}">> >>, b |-> FALSE, rep |-> <<"U+00D4">>],
       [pat |-> << <<"\\", "^", "{", "u", "}">> >>, b |-> FALSE, rep |-> <<"U+00FB">>],
       [pat |-> << <<"\\", "^", "{", "U", "}">> >>, b |-> FALSE, rep |-> <<"U+00DB">>],
       [pat |-> << <<"\\", "c", "{", "c", "}">> >>, b |-> FALSE, rep |-> <<"U+00E7">>],
       [pat |-> << <<"\\", "c", "{", "C", "}">> >>, b |-> FALSE, rep |-> <<"U+00C7">>],
       [pat |-> << <<"\\", "s", "s">> >>, b |-> TRUE, rep |-> <<"U+00DF">>],
       [pat |-> << <<"\\", "a", "e">> >>, b |-> TRUE, rep |-> <<"U+00E6">>],
       [pat |-> << <<"\\", "A", "E">> >>, b |-> TRUE, rep |-> <<"U+00C6">>],
       [pat |-> << <<"\\", "o", "e">> >>, b |-> TRUE, rep |-> <<"U+0153">>],
       [pat |-> << <<"\\", "O", "E">> >>, b |-> TRUE, rep |-> <<"U+0152">>],
       [pat |-> << <<"\\", "o">> >>, b |-> TRUE, rep |-> <<"U+00F8">>],
       [pat |-> << <<"\\", "O">> >>, b |-> TRUE, rep |-> <<"U+00D8">>],
       [pat |-> << <<"\\", "a", "a">> >>, b |-> TRUE, rep |-> <<"U+00E5">>],
       [pat |-> << <<"\\", "A", "A">> >>, b |-> TRUE, rep |-> <<"U+00C5">>],
       [pat |-> << <<"\\", "t", "e", "x", "t", "q", "u", "e", "s", "t", "i", "o", "n", "d", "o", "w", "n">> >>, b |-> TRUE, rep |-> <<"U+00BF">>],
       [pat |-> << <<"\\", "t", "e", "x", "t", "e", "x", "c", "l", "a", "m", "d", "o", "w", "n">> >>, b |-> TRUE, rep |-> <<"U+00A1">>] >>

\* simple_mappings: the (pattern, replacement) rules in the order of the dict; pat lists the
\* literal strings the pattern matches, in the order the regex engine tries them;
\* b is TRUE when the pattern ends with \b.
simple_mappings ==
    << [pat |-> << <<"\\", "~", "n">> >>, b |-> TRUE, rep |-> <<"U+00F1">>],
       [pat |-> << <<"\\", "~", "N">> >>, b |-> TRUE, rep |-> <<"U+00D1">>],
       [pat |-> << <<"\\", "'", "a">> >>, b |-> TRUE, rep |-> <<"U+00E1">>],
       [pat |-> << <<"\\", "'", "A">> >>, b |-> TRUE, rep |-> <<"U+00C1">>],
       [pat |-> << <<"\\", "'", "e">> >>, b |-> TRUE, rep |-> <<"U+00E9">>],
       [pat |-> << <<"\\", "'", "E">> >>, b |-> TRUE, rep |-> <<"U+00C9">>],
       [pat |-> << <<"\\", "'", "i">> >>, b |-> TRUE, rep |-> <<"U+00ED">>],
       [pat |-> << <<"\\", "'", "I">> >>, b |-> TRUE, rep |-> <<"U+00CD">>],
       [pat |-> << <<"\\", "'", "o">> >>, b |-> TRUE, rep |-> <<"U+00F3">>],
       [pat |-> << <<"\\", "'", "O">> >>, b |-> TRUE, rep |-> <<"U+00D3">>],
       [pat |-> << <<"\\", "'", "u">> >>, b |-> TRUE, rep |-> <<"U+00FA">>],
       [pat |-> << <<"\\", "'", "U">> >>, b |-> TRUE, rep |-> <<"U+00DA">>],
       [pat |-> << <<"\\", "U+0060", "a">> >>, b |-> TRUE, rep |-> <<"U+00E0">>],
       [pat |-> << <<"\\", "U+0060", "A">> >>, b |-> TRUE, rep |-> <<"U+00C0">>],
       [pat |-> << <<"\\", "U+0060", "e">> >>, b |-> TRUE, rep |-> <<"U+00E8">>],
       [pat |-> << <<"\\", "U+0060", "E">> >>, b |-> TRUE, rep |-> <<"U+00C8">>],
       [pat |-> << <<"\\", "U+0060", "i">> >>, b |-> TRUE, rep |-> <<"U+00EC">>],
       [pat |-> << <<"\\", "U+0060", "I">> >>, b |-> TRUE, rep |-> <<"U+00CC">>],
       [pat |-> << <<"\\", "U+0060", "o">> >>, b |-> TRUE, rep |-> <<"U+00F2">>],
       [pat |-> << <<"\\", "U+0060", "O">> >>, b |-> TRUE, rep |-> <<"U+00D2">>],
       [pat |-> << <<"\\", "U+0060", "u">> >>, b |-> TRUE, rep |-> <<"U+00F9">>],
       [pat |-> << <<"\\", "U+0060", "U">> >>, b |-> TRUE, rep |-> <<"U+00D9">>],
       [pat |-> << <<"\\", "\"", "a">> >>, b |-> TRUE, rep |-> <<"U+00E4">>],
       [pat |-> << <<"\\", "\"", "A">> >>, b |-> TRUE, rep |-> <<"U+00C4">>],
       [pat |-> << <<"\\", "\"", "e">> >>, b |-> TRUE, rep |-> <<"U+00EB">>],
       [pat |-> << <<"\\", "\"", "E">> >>, b |-> TRUE, rep |-> <<"U+00CB">>],
       [pat |-> << <<"\\", "\"", "i">> >>, b |-> TRUE, rep |-> <<"U+00EF">>],
       [pat |-> << <<"\\", "\"", "I">> >>, b |-> TRUE, rep |-> <<"U+00CF">>],
       [pat |-> << <<"\\", "\"", "o">> >>, b |-> TRUE, rep |-> <<"U+00F6">>],
       [pat |-> << <<"\\", "\"", "O">> >>, b |-> TRUE, rep |-> <<"U+00D6">>],
       [pat |-> << <<"\\", "\"", "u">> >>, b |-> TRUE, rep |-> <<"U+00FC">>],
       [pat |-> << <<"\\", "\"", "U">> >>, b |-> TRUE, rep |-> <<"U+00DC">>] >>

\* The length of the match of the pattern of rule at position p of s: the
\* first of the literals of the rule that stands there, followed by a word
\* boundary when the pattern asks for one; 0 when none does.
RuleMatchLen(rule, s, p) ==
    LET ok == {k \in 1..Len(rule.pat) :
                  /\ LitAt(s, p, rule.pat[k])
                  /\ rule.b => BoundaryAt(s, p + Len(rule.pat[k]))}
    IN  IF ok = {} THEN 0 ELSE Len(rule.pat[Min(ok)])

\* One re.sub(latex_pattern, unicode_char, value) of the two mapping loops.
ApplyMapping(rule, s) ==
    ReSub(s, [p \in 1..Len(s) |-> RuleMatchLen(rule, s, p)],
             [p \in 1..Len(s) |-> rule.rep])

\* for latex_pattern, unicode_char in table.items(): value = re.sub(...)
\* The rules lo..hi of the table are applied to s in the order of the table
\* (the range is halved, and the first half is evaluated before the second
\* is entered, to keep the evaluation of TLC shallow).
RECURSIVE ApplyRules(_, _, _, _)
ApplyRules(table, lo, hi, s) ==
    IF lo > hi THEN s
    ELSE IF lo = hi THEN ApplyMapping(table[lo], s)
    ELSE LET mid == (lo + hi) \div 2
             t == ApplyRules(table, lo, mid, s)
         IN  IF Len(t) >= 0 THEN ApplyRules(table, mid + 1, hi, t) ELSE t

ApplyMappings(table, s) == ApplyRules(table, 1, Len(table), s)

IsBrace(c) == c \in {"{", "}"}

\* The length of the match of \{([^{}]*)\} at position p of s.
BracePairLen(s, p) ==
    IF s[p] # "{" THEN 0
    ELSE LET e == RunEnd("not_brace", s, p + 1)
         IN  IF e <= Len(s) /\ s[e] = "}" THEN e + 1 - p ELSE 0

\* re.sub of line 94: a brace pair without a brace inside is replaced by its
\* inside.
StripBraces(s) ==
    ReSub(s, [p \in 1..Len(s) |-> BracePairLen(s, p)],
             [p \in 1..Len(s) |-> SubSeq(s, p + 1, p + BracePairLen(s, p) - 2)])

\* The second argument of the call that spans lines 101-102: the text
\* between the two triple quotes of the source.
BacktickReplacement ==
    <<")", " ", " ", " ", "#", " ", "U+5DE6", "U+5355", "U+5F15", "U+53F7", "\n",
      " ", " ", " ", " ", "v", "a", "l", "u", "e", " ", "=", " ",
      "v", "a", "l", "u", "e", ".", "r", "e", "p", "l", "a", "c", "e",
      "(", "\"", "'", "\"", ",", " ">>

\* The chain of str.replace calls of lines 97-102.
ReplaceDashesAndQuotes(s) ==
    LET v1 == Replace(s,  <<"-", "-">>, <<"U+2013">>)
        v2 == Replace(v1, <<"-", "-", "-">>, <<"U+2014">>)
        v3 == Replace(v2, <<"U+0060", "U+0060">>, <<"\"">>)
        v4 == Replace(v3, <<"'", "'">>, <<"\"">>)
        v5 == Replace(v4, <<"U+0060">>, BacktickReplacement)
    IN  v5

\* The length of the match of \\[a-zA-Z]+\s* at position p of s.
CommandLen(s, p) ==
    IF s[p] # "\\" THEN 0
    ELSE LET e == RunEnd("ascii_letter", s, p + 1)
         IN  IF e = p + 1 THEN 0 ELSE RunEnd("space", s, e) - p

\* re.sub of line 105: a backslash, one or more ASCII letters and the
\* whitespace after them become one space.
StripCommands(s) ==
    ReSub(s, [p \in 1..Len(s) |-> CommandLen(s, p)],
             [p \in 1..Len(s) |-> <<" ">>])

\* re.sub of line 106: a backslash and the character after it (any but a
\* newline) become that character.
StripBackslashes(s) ==
    ReSub(s, [p \in 1..Len(s) |->
                 IF s[p] = "\\" /\ p + 1 <= Len(s) /\ s[p + 1] # "\n" THEN 2 ELSE 0],
             [p \in 1..Len(s) |-> <<s[p + 1]>>])

\* re.sub of line 109: a run of whitespace becomes one space.
CollapseSpaces(s) ==
    ReSub(s, [p \in 1..Len(s) |-> RunEnd("space", s, p) - p],
             [p \in 1..Len(s) |-> <<" ">>])

clean_field_value(v) ==
    IF v = <<>> THEN <<>>
    ELSE LET v1 == ApplyMappings(latex_mappings, v)
             v2 == ApplyMappings(simple_mappings, v1)
             v3 == StripBraces(v2)
             v4 == ReplaceDashesAndQuotes(v3)
             v5 == StripCommands(v4)
             v6 == StripBackslashes(v5)
             v7 == CollapseSpaces(v6)
         IN  strip(v7)

--------------------------------------------------------------------------

\* field_patterns, in the order of the dict.  Every pattern is the field name
\* followed by \s*=\s*\{ , the captured value and \} ; balanced is TRUE for
\* the patterns whose value is a run of non-brace characters and of brace
\* pairs without a brace inside, FALSE for those whose value is one or more
\* characters other than the closing brace.
field_patterns ==
    << [key |-> "author", name |-> <<"a", "u", "t", "h", "o", "r">>, balanced |-> TRUE],
       [key |-> "title", name |-> <<"t", "i", "t", "l", "e">>, balanced |-> TRUE],
       [key |-> "year", name |-> <<"y", "e", "a", "r">>, balanced |-> FALSE],
       [key |-> "journal", name |-> <<"j", "o", "u", "r", "n", "a", "l">>, balanced |-> TRUE],
       [key |-> "booktitle", name |-> <<"b", "o", "o", "k", "t", "i", "t", "l", "e">>, balanced |-> TRUE],
       [key |-> "publisher", name |-> <<"p", "u", "b", "l", "i", "s", "h", "e", "r">>, balanced |-> TRUE],
       [key |-> "volume", name |-> <<"v", "o", "l", "u", "m", "e">>, balanced |-> FALSE],
       [key |-> "number", name |-> <<"n", "u", "m", "b", "e", "r">>, balanced |-> FALSE],
       [key |-> "pages", name |-> <<"p", "a", "g", "e", "s">>, balanced |-> FALSE],
       [key |-> "doi", name |-> <<"d", "o", "i">>, balanced |-> FALSE],
       [key |-> "url", name |-> <<"u", "r", "l">>, balanced |-> FALSE],
       [key |-> "abstract", name |-> <<"a", "b", "s", "t", "r", "a", "c", "t">>, balanced |-> TRUE],
       [key |-> "keywords", name |-> <<"k", "e", "y", "w", "o", "r", "d", "s">>, balanced |-> TRUE],
       [key |-> "location", name |-> <<"l", "o", "c", "a", "t", "i", "o", "n">>, balanced |-> TRUE],
       [key |-> "series", name |-> <<"s", "e", "r", "i", "e", "s">>, balanced |-> TRUE],
       [key |-> "isbn", name |-> <<"i", "s", "b", "n">>, balanced |-> FALSE],
       [key |-> "issn", name |-> <<"i", "s", "s", "n">>, balanced |-> FALSE],
       [key |-> "address", name |-> <<"a", "d", "d", "r", "e", "s", "s">>, balanced |-> TRUE],
       [key |-> "editor", name |-> <<"e", "d", "i", "t", "o", "r">>, balanced |-> TRUE],
       [key |-> "organization", name |-> <<"o", "r", "g", "a", "n", "i", "z", "a", "t", "i", "o", "n">>, balanced |-> TRUE],
       [key |-> "month", name |-> <<"m", "o", "n", "t", "h">>, balanced |-> FALSE],
       [key |-> "note", name |-> <<"n", "o", "t", "e">>, balanced |-> TRUE],
       [key |-> "articleno", name |-> <<"a", "r", "t", "i", "c", "l", "e", "n", "o">>, balanced |-> FALSE],
       [key |-> "numpages", name |-> <<"n", "u", "m", "p", "a", "g", "e", "s">>, balanced |-> FALSE],
       [key |-> "issue_date", name |-> <<"i", "s", "s", "u", "e", "_", "d", "a", "t", "e">>, balanced |-> FALSE] >>

\* entry_pattern at position p of s: "@", one or more word characters, "{",
\* one or more characters that are neither comma nor whitespace, ",".  The
\* length of the match, 0 when there is none.
EntryPatternLen(s, p) ==
    IF s[p] # "@" THEN 0
    ELSE LET a == RunEnd("word", s, p + 1)
         IN  IF a = p + 1 \/ a > Len(s) \/ s[a] # "{" THEN 0
             ELSE LET b == RunEnd("key", s, a + 1)
                  IN  IF b = a + 1 \/ b > Len(s) \/ s[b] # "," THEN 0
                      ELSE b + 1 - p

\* The match object of entry_pattern at p: start(), end() and the two groups.
EntryMatch(s, p) ==
    LET a == RunEnd("word", s, p + 1)
        b == RunEnd("key", s, a + 1)
    IN  [start  |-> p,
         end    |-> p + EntryPatternLen(s, p),
         group1 |-> SubSeq(s, p + 1, a - 1),
         group2 |-> SubSeq(s, a + 1, b - 1)]

\* list(re.finditer(entry_pattern, content)): the matches from left to
\* right, the search for the next one starting where the last one ended.
entry_matches(s) ==
    LET Starts(p) == {q \in p..Len(s) : EntryPatternLen(s, q) > 0}
        found[p \in 1..(Len(s) + 1)] ==
            IF Starts(p) = {} THEN <<>>
            ELSE LET q == Min(Starts(p))
                 IN  <<EntryMatch(s, q)>> \o found[q + EntryPatternLen(s, q)]
    IN  found[1]

\* entry_content with every record running to the end of the text.
entry_content_to_end(s, matches, i) ==
    Slice(s, matches[i].start, Len(s) + 1)

\* entry_content of iteration i (1-based) of the loop over the matches.
entry_content(s, matches, i) ==
    LET start_pos == matches[i].start
        end_pos   == IF i + 1 <= Len(matches) THEN matches[i + 1].start
                                              ELSE Len(s) + 1
    IN  Slice(s, start_pos, end_pos)

\* The value ended by the first closing brace after q, whatever stands
\* before it.
BalancedEnd_first_close(s, q) ==
    LET e == RunEnd("not_close_brace", s, q)
    IN  IF e <= Len(s) THEN e ELSE 0

\* The value of a balanced pattern that starts at q: the position of the
\* closing brace that ends it, 0 when the pattern does not match.
BalancedEnd(s, q) ==
    LET close[r \in q..(Len(s) + 1)] ==
            LET e == RunEnd("not_brace", s, r)
            IN  IF e > Len(s) THEN 0
                ELSE IF s[e] = "}" THEN e
                ELSE LET e2 == RunEnd("not_brace", s, e + 1)
                     IN  IF e2 <= Len(s) /\ s[e2] = "}" THEN close[e2 + 1] ELSE 0
    IN  close[q]

\* The value of a simple pattern that starts at q, likewise.
SimpleEnd(s, q) ==
    LET e == RunEnd("not_close_brace", s, q)
    IN  IF e > q /\ e <= Len(s) THEN e ELSE 0

\* The pattern of rule matched at position p of s: the bounds of group(1),
\* from (inclusive) and to (exclusive); from = 0 when there is no match.
FieldMatchAt(rule, s, p) ==
    LET none == [from |-> 0, to |-> 0]
    IN  IF ~LitAt(s, p, rule.name) THEN none
        ELSE LET a == RunEnd("space", s, p + Len(rule.name))
             IN  IF a > Len(s) \/ s[a] # "=" THEN none
                 ELSE LET b == RunEnd("space", s, a + 1)
                      IN  IF b > Len(s) \/ s[b] # "{" THEN none
                          ELSE LET e == IF rule.balanced THEN BalancedEnd(s, b + 1)
                                                         ELSE SimpleEnd(s, b + 1)
                               IN  IF e = 0 THEN none ELSE [from |-> b + 1, to |-> e]

\* re.search(pattern, entry_content, re.DOTALL): found tells whether there is
\* a match, group1 is the group(1) of the leftmost one.
FieldSearch(rule, s) ==
    LET At == {p \in 1..Len(s) : FieldMatchAt(rule, s, p).from > 0}
    IN  IF At = {} THEN [found |-> FALSE, group1 |-> <<>>]
        ELSE LET m == FieldMatchAt(rule, s, Min(At))
             IN  [found |-> TRUE, group1 |-> Slice(s, m.from, m.to)]

\* The dict entry built for match number i: type, key and one item for every
\* field whose pattern is found in the entry_content.
Entry(s, matches, i) ==
    LET body     == entry_content(s, matches, i)
        RuleOf(k) == CHOOSE j \in 1..Len(field_patterns) : field_patterns[j].key = k
        present  == {field_patterns[j].key : j \in
                        {j \in 1..Len(field_patterns) : FieldSearch(field_patterns[j], body).found}}
    IN  [k \in {"type", "key"} \cup present |->
            IF k = "type" THEN lower(matches[i].group1)
            ELSE IF k = "key" THEN strip(matches[i].group2)
            ELSE clean_field_value(FieldSearch(field_patterns[RuleOf(k)], body).group1)]

\* parse_bibtex_file applied to the decoded text of the file.
parse_bibtex_file(s) ==
    LET matches == entry_matches(s)
    IN  [i \in 1..Len(matches) |-> Entry(s, matches, i)]

\* The entry_content of every iteration of the loop of parse_bibtex_file.
entry_contents(s) ==
    LET matches == entry_matches(s)
    IN  [i \in 1..Len(matches) |-> entry_content(s, matches, i)]

--------------------------------------------------------------------------

\* main, one action per step of the function.  What the file system answers
\* (os.path.exists, open) is an input of the step.

\* if not os.path.exists(work_directory): ... return
CheckDirectory ==
    /\ pc = "check_directory"
    /\ \E exists \in BOOLEAN :
          IF exists THEN pc' = "check_file" /\ report' = report
                    ELSE pc' = "done" /\ report' = "no_directory"
    /\ UNCHANGED <<content, entries, bodies, exports, artifact, value, cleaned>>

\* if not os.path.exists(input_file): ... return
CheckInputFile ==
    /\ pc = "check_file"
    /\ \E exists \in BOOLEAN :
          IF exists THEN pc' = "parse" /\ report' = report
                    ELSE pc' = "done" /\ report' = "no_input_file"
    /\ UNCHANGED <<content, entries, bodies, exports, artifact, value, cleaned>>

\* ParseReturns without the test for an empty list.
ParseReturns_no_empty_test ==
    /\ pc = "parse"
    /\ entries' = parse_bibtex_file(content)
    /\ bodies' = entry_contents(content)
    /\ pc' = "statistics"
    /\ UNCHANGED <<content, exports, artifact, report, value, cleaned>>

\* entries = parse_bibtex_file(input_file) returns; if not entries: ... return
ParseReturns ==
    /\ pc = "parse"
    /\ entries' = parse_bibtex_file(content)
    /\ bodies' = entry_contents(content)
    /\ IF Len(entries') = 0 THEN pc' = "done" /\ report' = "no_entries"
                            ELSE pc' = "statistics" /\ report' = report
    /\ UNCHANGED <<content, exports, artifact, value, cleaned>>

\* parse_bibtex_file raises (open fails); except Exception as e: print, traceback
ParseRaises ==
    /\ pc = "parse"
    /\ pc' = "done"
    /\ report' = "error"
    /\ UNCHANGED <<content, entries, bodies, exports, artifact, value, cleaned>>

\* print_statistics(entries)
PrintStatistics ==
    /\ pc = "statistics"
    /\ pc' = "export"
    /\ UNCHANGED <<content, entries, bodies, exports, artifact, report, value, cleaned>>

\* export_to_files(entries, output_excel): the file is written, or the
\* writer fails and export_to_files reports it itself; main prints the
\* completion message in both cases.
ExportToFiles ==
    /\ pc = "export"
    /\ exports' = exports + 1
    /\ \E written \in BOOLEAN : artifact' = written
    /\ pc' = "done"
    /\ report' = "completed"
    /\ UNCHANGED <<content, entries, bodies, value, cleaned>>

\* parse_bibtex_file called on its own.
CallParse ==
    /\ pc = "call_parse"
    /\ entries' = parse_bibtex_file(content)
    /\ bodies' = entry_contents(content)
    /\ pc' = "returned"
    /\ UNCHANGED <<content, exports, artifact, report, value, cleaned>>

\* clean_field_value called on its own.
CallClean ==
    /\ pc = "call_clean"
    /\ cleaned' = clean_field_value(value)
    /\ pc' = "returned"
    /\ UNCHANGED <<content, entries, bodies, exports, artifact, report, value>>

--------------------------------------------------------------------------
\* Inputs.

\* The concatenation of a sequence of texts.
Concat(ts) ==
    LET c[i \in 0..Len(ts)] == IF i = 0 THEN <<>> ELSE c[i - 1] \o ts[i]
    IN  c[Len(ts)]

\* The texts made of at most n of the fragments frags.
TextsOf(frags, n) ==
    {Concat(ts) : ts \in UNION {[1..k -> frags] : k \in 0..n}}

MaxFrags == 4

\* File contents: a whole record-start marker, the start of one, a field, and
\* the characters that end or break a marker.
TextFragments ==
    { <<"@", "A", "b", "{", "k", ",">>,
      <<"@", "A", "{">>,
      <<"t", "i", "t", "l", "e", "=", "{", "x", "}">>,
      <<",">>, <<" ">>, <<"x">> }

Texts == TextsOf(TextFragments, MaxFrags)

Idle ==
    /\ entries = <<>> /\ bodies = <<>> /\ exports = 0 /\ artifact = FALSE
    /\ report = "none"

Init ==
    /\ pc = "check_directory"
    /\ content \in Texts
    /\ value = <<>> /\ cleaned = <<>>
    /\ Idle

Next ==
    \/ CheckDirectory
    \/ CheckInputFile
    \/ ParseReturns
    \/ ParseRaises
    \/ PrintStatistics
    \/ ExportToFiles

Spec == Init /\ [][Next]_vars

--------------------------------------------------------------------------
\* parse_bibtex_file on records with fields.

Header == <<"@", "A", "{", "k", ",">>

CheckedNames ==
    { <<"t", "i", "t", "l", "e">>,
      <<"b", "o", "o", "k", "t", "i", "t", "l", "e">>,
      <<"p", "a", "g", "e", "s">>,
      <<"n", "u", "m", "p", "a", "g", "e", "s">>,
      <<"d", "o", "i">>,
      <<"n", "o", "t", "e">> }

Separators == { <<"=">>, <<" ", "=", " ">> }

\* Field values: empty, plain, with one level of braces, with an accent.
FieldValues ==
    { <<>>,
      <<"7">>,
      <<"A", " ", "{", "S", "}", " ", "X">>,
      <<"\\", "'", "{", "e", "}", "{", "c", "}">> }

\* The text of one field: name = {value},
FieldText(name, sep, val) == name \o sep \o <<"{">> \o val \o <<"}", ",">>

FieldTexts ==
    {FieldText(n, s, v) : n \in CheckedNames, s \in Separators, v \in FieldValues}

MaxFields == 2

\* Records of at most MaxFields fields.
FieldRecords == {Header \o body : body \in TextsOf(FieldTexts, MaxFields)}

InitFields ==
    /\ pc = "call_parse"
    /\ content \in FieldRecords
    /\ value = <<>> /\ cleaned = <<>>
    /\ Idle

SpecFields == InitFields /\ [][CallParse]_vars

\* parse_bibtex_file on a record with one field, of any name of the catalog.

CatalogNames == {field_patterns[j].name : j \in 1..Len(field_patterns)}

OneFieldRecords ==
    {Header} \cup
    {Header \o FieldText(n, s, v) : n \in CatalogNames, s \in Separators, v \in FieldValues}

InitOneField ==
    /\ pc = "call_parse"
    /\ content \in OneFieldRecords
    /\ value = <<>> /\ cleaned = <<>>
    /\ Idle

SpecOneField == InitOneField /\ [][CallParse]_vars

\* parse_bibtex_file on a record with one field anchor followed by any text.

MaxTail == 5

TailChars == {"a", "{", "}", "\\", "'"}

Tails == TextsOf({<<c>> : c \in TailChars}, MaxTail)

Anchors ==
    { <<"t", "i", "t", "l", "e", "=", "{">>,
      <<"y", "e", "a", "r", "=", "{">> }

InitBraces ==
    /\ pc = "call_parse"
    /\ content \in {Header \o a \o t : a \in Anchors, t \in Tails}
    /\ value = <<>> /\ cleaned = <<>>
    /\ Idle

SpecBraces == InitBraces /\ [][CallParse]_vars

--------------------------------------------------------------------------
\* clean_field_value on values of hyphens and letters.

MaxDashLen == 6

DashExample ==
    <<"t", "e", "x", "t", "-", "-", "m", "o", "r", "e", "-", "-", "-", "e", "n", "d">>

InitDashes ==
    /\ pc = "call_clean"
    /\ value \in TextsOf({<<"-">>, <<"a">>}, MaxDashLen) \cup {DashExample}
    /\ content = <<>> /\ cleaned = <<>>
    /\ Idle

SpecDashes == InitDashes /\ [][CallClean]_vars

\* clean_field_value on values of quotes, letters and spaces.

MaxQuoteLen == 4

InitQuotes ==
    /\ pc = "call_clean"
    /\ value \in TextsOf({<<"U+0060">>, <<"'">>, <<"a">>, <<" ">>}, MaxQuoteLen)
    /\ content = <<>> /\ cleaned = <<>>
    /\ Idle

SpecQuotes == InitQuotes /\ [][CallClean]_vars

\* clean_field_value on values over backslash, braces, hyphen, backtick,
\* straight single quote, space and a letter.

MaxValueLen == 3

ValueChars == {"\\", "{", "}", "-", "U+0060", "'", " ", "a"}

InitValues ==
    /\ pc = "call_clean"
    /\ value \in TextsOf({<<c>> : c \in ValueChars}, MaxValueLen)
    /\ content = <<>> /\ cleaned = <<>>
    /\ Idle

SpecValues == InitValues /\ [][CallClean]_vars

\* clean_field_value on an accent escape, in the shorthand and in the
\* brace-wrapped form, between a prefix and a suffix that starts with no
\* word character.

AccentChars == {"~", "'", "U+0060", "\"", "^"}

BaseLetters ==
    {"a", "e", "i", "o", "u", "y", "c", "n", "A", "E", "I", "O", "U", "Y", "C", "N"}

Prefixes == { <<>>, <<"c", "a", "f">> }

Suffixes == { <<>>, <<" ", "x">>, <<".">> }

Shorthand(pre, acc, letter, suf) == pre \o <<"\\", acc, letter>> \o suf

BraceWrapped(pre, acc, letter, suf) == pre \o <<"\\", acc, "{", letter, "}">> \o suf

InitAccents ==
    /\ pc = "call_clean"
    /\ \E pre \in Prefixes, acc \in AccentChars, letter \in BaseLetters, suf \in Suffixes :
          value \in {Shorthand(pre, acc, letter, suf), BraceWrapped(pre, acc, letter, suf)}
    /\ content = <<>> /\ cleaned = <<>>
    /\ Idle

SpecAccents == InitAccents /\ [][CallClean]_vars

--------------------------------------------------------------------------
\* Properties of parse_bibtex_file and main, checked under Spec.

\* parse_bibtex_file has returned.
ParseReturned ==
    \/ pc \in {"statistics", "export", "returned"}
    \/ pc = "done" /\ report \in {"no_entries", "completed"}

\* The record-start marker stands at position p of s and ends before e:
\* "@", s[p+1..a-1] one or more word characters, "{" at a, s[a+1..b-1] one or
\* more characters that are neither comma nor whitespace, "," at b = e - 1.
MarkerStands(s, p, a, e) ==
    /\ s[p] = "@"
    /\ p + 1 < a /\ a + 1 < e - 1 /\ e - 1 <= Len(s)
    /\ \A i \in (p + 1)..(a - 1) : IsWord(s[i])
    /\ s[a] = "{"
    /\ \A i \in (a + 1)..(e - 2) : s[i] # "," /\ ~IsSpace(s[i])
    /\ s[e - 1] = ","

MarkerAt(s, p) == \E a \in 1..Len(s), e \in 1..(Len(s) + 1) : MarkerStands(s, p, a, e)
MarkerBrace(s, p) == CHOOSE a \in 1..Len(s) : \E e \in 1..(Len(s) + 1) : MarkerStands(s, p, a, e)
MarkerEnd(s, p) == CHOOSE e \in 1..(Len(s) + 1) : \E a \in 1..Len(s) : MarkerStands(s, p, a, e)

\* The positions where the marker occurs, occurrences counted from the left
\* and an occurrence inside an earlier one not counted.
MarkerStarts(s) ==
    LET occurs[p \in 1..Len(s)] ==
            /\ MarkerAt(s, p)
            /\ \A q \in 1..(p - 1) :
                  ~(MarkerAt(s, q) /\ MarkerEnd(s, q) > p /\ occurs[q])
    IN  {p \in 1..Len(s) : occurs[p]}

\* The i-th smallest element of S.
Nth(S, i) == CHOOSE x \in S : Cardinality({y \in S : y < x}) = i - 1

\* C1: when the record-start marker occurs N >= 0 times in the text,
\* parse_bibtex_file produces exactly N records in the order of the markers;
\* the body of record i is the text from the start of marker i up to the
\* start of marker i+1, or to the end of the text for the last one, so the
\* bodies do not overlap and together are the text from the first marker to
\* the end; no marker gives the empty list.
C1_Segmentation ==
    ParseReturned =>
        LET S == MarkerStarts(content)
            N == Cardinality(S)
        IN  /\ Len(entries) = N
            /\ Len(bodies) = N
            /\ \A i \in 1..N :
                  LET p == Nth(S, i)
                      a == MarkerBrace(content, p)
                      e == MarkerEnd(content, p)
                  IN  /\ bodies[i] = SubSeq(content, p,
                                        IF i < N THEN Nth(S, i + 1) - 1 ELSE Len(content))
                      /\ entries[i].type = lower(SubSeq(content, p + 1, a - 1))
                      /\ entries[i].key = SubSeq(content, a + 1, e - 2)
            /\ N > 0 => Concat(bodies) = SubSeq(content, Nth(S, 1), Len(content))
            /\ N = 0 => entries = <<>>

\* Two records were cut out of a text, the first with text after its marker.
C1_Witness ==
    /\ ParseReturned
    /\ Len(entries) = 2
    /\ Len(bodies[1]) > 6
    /\ Len(bodies[2]) > 6

\* C8: export_to_files is invoked at most once and only after
\* parse_bibtex_file returned a non-empty list; when the list is empty main
\* reports that no records were found and stops, when parsing raises main
\* reports the error and stops, and in both cases export_to_files is not
\* invoked and no output file is written.
C8_ExportOnlyAfterRecords ==
    /\ exports <= 1
    /\ exports = 1 => ParseReturned /\ Len(entries) > 0
    /\ pc \in {"statistics", "export"} => Len(entries) > 0
    /\ ParseReturned /\ Len(entries) = 0 => pc \in {"done", "returned"} /\ report = "no_entries"
    /\ report = "no_entries" => pc = "done" /\ exports = 0 /\ ~artifact
    /\ report = "error" => pc = "done" /\ exports = 0 /\ ~artifact
    /\ artifact => exports = 1

\* main ran to the end of a successful export.
C8_Witness ==
    /\ pc = "done"
    /\ report = "completed"
    /\ exports = 1
    /\ artifact
    /\ Len(entries) > 0

--------------------------------------------------------------------------
\* Properties of the field extraction, checked under SpecFields, SpecOneField
\* and SpecBraces.

\* The rule of field_patterns for the field named name.
RuleNamed(name) ==
    field_patterns[CHOOSE j \in 1..Len(field_patterns) : field_patterns[j].name = name]

\* The lists of fields whose text, after the header, is the text.
FieldsOf(text, names, n) ==
    LET Fields == [name : names, sep : Separators, val : FieldValues]
        Text(f) == FieldText(f.name, f.sep, f.val)
    IN  {fs \in UNION {[1..k -> Fields] : k \in 0..n} :
            text = Header \o Concat([i \in 1..Len(fs) |-> Text(fs[i])])}

\* The deepest nesting of braces in v.
BraceDepth(v) ==
    LET Opens(i) == Cardinality({j \in 1..i : v[j] = "{"})
        Closes(i) == Cardinality({j \in 1..i : v[j] = "}"})
    IN  Max({0} \cup {Opens(i) - Closes(i) : i \in 1..Len(v)})

\* C2: when the body has the field named f, f one of the brace-balanced
\* fields of the catalog, with a value whose braces nest at most one level
\* deep, the entry of f is clean_field_value of the complete value, wherever
\* the field stands among the other fields of the record.
C2_CompleteNestedValue ==
    pc = "returned" =>
        \A fs \in FieldsOf(content, CheckedNames, MaxFields) :
            \A i \in 1..Len(fs) :
                LET rule == RuleNamed(fs[i].name)
                IN  ( /\ rule.balanced
                      /\ BraceDepth(fs[i].val) <= 1
                      /\ \A j \in 1..Len(fs) : j # i => fs[j].name # fs[i].name )
                    => /\ rule.key \in DOMAIN entries[1]
                       /\ entries[1][rule.key] = clean_field_value(fs[i].val)

\* C3: when the body has no field named f, f any of the 25 names of the
\* catalog, the mapping of the record has no key f.
C3_AbsentFieldOmitted ==
    pc = "returned" =>
        \A fs \in FieldsOf(content, CheckedNames, MaxFields) :
            \A j \in 1..Len(field_patterns) :
                (\A i \in 1..Len(fs) : fs[i].name # field_patterns[j].name)
                    => field_patterns[j].key \notin DOMAIN entries[1]

\* C9: a body with the field f = {}, f any name of the catalog, gives a
\* mapping that has the key f with the empty string as its value (and so
\* differs from the mapping of a body without the field, which has no key f).
C9_EmptyValueKept ==
    pc = "returned" =>
        \A fs \in FieldsOf(content, CatalogNames, 1) :
            \A i \in 1..Len(fs) :
                fs[i].val = <<>> =>
                    /\ RuleNamed(fs[i].name).key \in DOMAIN entries[1]
                    /\ entries[1][RuleNamed(fs[i].name).key] = <<>>

\* The keys of the brace-balanced fields of the catalog.
BalancedKeys == {field_patterns[j].key : j \in {j \in 1..Len(field_patterns) : field_patterns[j].balanced}}

\* C10: the value stored for a brace-balanced field of the catalog contains
\* no opening and no closing brace, whatever the text of the record.
C10_NoBraceInBalancedValue ==
    \A i \in 1..Len(entries) :
        \A k \in BalancedKeys \cap DOMAIN entries[i] :
            \A c \in 1..Len(entries[i][k]) : ~IsBrace(entries[i][k][c])

\* A title was stored whose captured text holds a brace pair and text after it.
C10_Witness ==
    /\ pc = "returned"
    /\ Len(entries) = 1
    /\ "title" \in DOMAIN entries[1]
    /\ LET g == FieldSearch(RuleNamed(<<"t", "i", "t", "l", "e">>), bodies[1]).group1
       IN  /\ \E c \in 1..Len(g) : g[c] = "{"
           /\ Len(entries[1]["title"]) > 0

--------------------------------------------------------------------------
\* Properties of clean_field_value, checked under SpecDashes, SpecQuotes,
\* SpecValues and SpecAccents.

\* The number of occurrences of the character c in v.
Count(v, c) == Cardinality({i \in 1..Len(v) : v[i] = c})

EnDash == "U+2013"
EmDash == "U+2014"

DashExampleResult ==
    <<"t", "e", "x", "t", EnDash, "m", "o", "r", "e", EmDash, "e", "n", "d">>

\* The hyphens of v are one run of exactly three.
OneRunOfThree(v) ==
    \E p \in 1..Len(v) : {i \in 1..Len(v) : v[i] = "-"} = {p, p + 1, p + 2}

\* C4: a triple hyphen becomes one em-dash and is not turned into an en-dash
\* followed by a hyphen: text--more---end gives text, en-dash, more, em-dash,
\* end, and a value whose only hyphens are one run of exactly three gives
\* exactly one em-dash and neither a hyphen nor an en-dash.
C4_TripleHyphenIsEmDash ==
    pc = "returned" =>
        /\ value = DashExample => cleaned = DashExampleResult
        /\ OneRunOfThree(value) =>
              /\ Count(cleaned, EmDash) = 1
              /\ Count(cleaned, "-") = 0
              /\ Count(cleaned, EnDash) = 0

\* The value v with its doubled quotes turned into the double quotation mark,
\* every other backtick into the character q1 and every other straight single
\* quote into the character q2, whitespace collapsed and trimmed.
QuotesRewritten(v, q1, q2) ==
    LET v1 == Replace(v,  <<"U+0060", "U+0060">>, <<"\"">>)
        v2 == Replace(v1, <<"'", "'">>, <<"\"">>)
        v3 == Replace(v2, <<"U+0060">>, <<q1>>)
        v4 == Replace(v3, <<"'">>, <<q2>>)
    IN  strip(CollapseSpaces(v4))

\* C5: every single backtick of the value has become one curly single quote
\* and every single straight single quote the other curly single quote, one
\* character for one, and the result holds neither a backtick nor a straight
\* single quote.
C5_SingleQuotesCurly ==
    pc = "returned" =>
        /\ Count(cleaned, "U+0060") = 0
        /\ Count(cleaned, "'") = 0
        /\ \E q \in {<<"U+2018", "U+2019">>, <<"U+2019", "U+2018">>} :
              cleaned = QuotesRewritten(value, q[1], q[2])

\* C6: when the result of clean_field_value holds no backslash and no brace,
\* clean_field_value leaves it as it is.
C6_Idempotent ==
    pc = "returned" =>
        ( (\A i \in 1..Len(cleaned) : cleaned[i] \notin {"\\", "{", "}"})
            => clean_field_value(cleaned) = cleaned )

\* The brace-wrapped form of the accent acc on the letter is rewritten by a
\* rule of latex_mappings.
BraceWrappedSupported(acc, letter) ==
    \E j \in 1..Len(latex_mappings) :
        \E k \in 1..Len(latex_mappings[j].pat) :
            latex_mappings[j].pat[k] = <<"\\", acc, "{", letter, "}">>

\* C7: for every accent family and base letter that is rewritten in the
\* brace-wrapped form, the shorthand form (backslash, accent, bare letter,
\* word boundary) gives the same result as the brace-wrapped form.
C7_ShorthandAsBraceWrapped ==
    pc = "returned" =>
        \A pre \in Prefixes, acc \in AccentChars, letter \in BaseLetters, suf \in Suffixes :
            (value = Shorthand(pre, acc, letter, suf) /\ BraceWrappedSupported(acc, letter))
                => cleaned = clean_field_value(BraceWrapped(pre, acc, letter, suf))

--------------------------------------------------------------------------
==========================================================================
